---- MODULE Spec2Model ----
(***************************************************************************)
(* Model of psi4/driver/procrouting/dft_funcs/dict_builder.py:             *)
(* the module-load loop that fills the `functionals` registry from         *)
(* dict_functionals and dashcoeff, check_consistency, and                  *)
(* build_superfunctional_from_dictionary.                                  *)
(*                                                                         *)
(* Representation.  Names that are upper-cased or concatenated are         *)
(* sequences of one-character strings, so upper() and "+" are computed.    *)
(* A dict whose keys are only tested for membership is a record (function  *)
(* with a string domain); a dict that the code iterates is a sequence of   *)
(* [key, val] items in iteration order.  Objects live in `heap`; a         *)
(* reference is an index into it.  Floats are integers in hundredths.      *)
(***************************************************************************)
EXTENDS Integers, Sequences, FiniteSets, TLC

VARIABLES
    dashcoeff,     \* qcdb.dashparam.dashcoeff: scheme -> items (key, row)
    heap,          \* objects: heap[r] is the dict behind reference r
    dict_functionals, \* the references of the base definitions, in iteration order
    functionals,   \* the registry: key -> reference
    pos,           \* number of definitions the load loop has processed
    ret,           \* the last build call: its arguments and its outcome
    repeated       \* history: the last two build calls had identical arguments

vars == <<dashcoeff, heap, dict_functionals, functionals, pos, ret, repeated>>

---------------------------------------------------------------------------
(* Bounds of the explored inputs *)
MaxDefs == 2       \* base definitions in dict_functionals
MaxXFuncs == 2     \* entries of an "x_functionals" dict

---------------------------------------------------------------------------
(* Strings *)
LowerChars == <<"a","b","c","d","e","f","g","h","i","j","k","l","m",
                "n","o","p","q","r","s","t","u","v","w","x","y","z">>
UpperChars == <<"A","B","C","D","E","F","G","H","I","J","K","L","M",
                "N","O","P","Q","R","S","T","U","V","W","X","Y","Z">>

UpperChar(c) ==
    IF \E i \in 1..26 : LowerChars[i] = c
    THEN UpperChars[CHOOSE i \in 1..26 : LowerChars[i] = c]
    ELSE c

\* str.upper()
upper(s) == [i \in 1..Len(s) |-> UpperChar(s[i])]

\* membership in a Python list
InList(x, list) == \E i \in 1..Len(list) : list[i] = x

\* the keys of an iterated dict
Keys(items) == {items[i].key : i \in 1..Len(items)}

\* the empty dict
EmptyDict == <<>>

\* Python's False, where a field holds either a value or False
False == [bool |-> FALSE]
\* a Python str in such a field
PyStr(s) == [str |-> s]

---------------------------------------------------------------------------
(* dispersion_names, in insertion order *)
dispersion_names ==
    << [key |-> <<"d","2","p","4">>,         val |-> <<"d","2","p","4">>],
       [key |-> <<"d","2","g","r">>,         val |-> <<"d","2","g","r">>],
       [key |-> <<"d","3","z","e","r","o">>, val |-> <<"d","3","z","e","r","o">>],
       [key |-> <<"d","3","b","j">>,         val |-> <<"d","3","b","j">>],
       [key |-> <<"d","3","m","z","e","r","o">>, val |-> <<"d","3","m","z","e","r","o">>],
       [key |-> <<"d","3","m","b","j">>,     val |-> <<"d","3","m","b","j">>],
       [key |-> <<"d">>,                     val |-> <<"d","2","p","4">>],
       [key |-> <<"d","2">>,                 val |-> <<"d","2","p","4">>],
       [key |-> <<"d","3">>,                 val |-> <<"d","3","z","e","r","o">>],
       [key |-> <<"d","3","m">>,             val |-> <<"d","3","m","z","e","r","o">>] >>

DispersionTypes == {dispersion_names[i].val : i \in 1..Len(dispersion_names)}

---------------------------------------------------------------------------
(* get_functional_aliases *)
get_functional_aliases_no_name(functional_dict) ==
    IF "alias" \in DOMAIN functional_dict
    THEN [i \in 1..Len(functional_dict.alias) |-> upper(functional_dict.alias[i])]
    ELSE << upper(functional_dict.name) >>

get_functional_aliases(functional_dict) ==
    IF "alias" \in DOMAIN functional_dict
    THEN Append([i \in 1..Len(functional_dict.alias) |-> upper(functional_dict.alias[i])],
                upper(functional_dict.name))
    ELSE << upper(functional_dict.name) >>

---------------------------------------------------------------------------
(* The module-load loop that fills `functionals` (lines 73-97) *)

\* for alias in functional_aliases: functionals[alias] = <reference>
RegisterAll(reg, keys, ref) ==
    [k \in (DOMAIN reg) \cup {keys[i] : i \in 1..Len(keys)} |->
        IF InList(k, keys) THEN ref ELSE reg[k]]

\* alias + "-" + dispersion_name.upper()
CompositeKey_by_type(alias, dn) == alias \o <<"-">> \o upper(dn.val)

CompositeKey(alias, dn) == alias \o <<"-">> \o upper(dn.key)

\* the deep copy of a base definition with its name and dispersion set
MakeVariant_shallow(base, dispersion_type, row) ==
    [name |-> base.name \o <<"-">> \o dispersion_type,
     x_functionals |-> IF "x_functionals" \in DOMAIN base THEN base.x_functionals ELSE <<>>,
     dispersion |->
        (IF "citation" \in DOMAIN row THEN [citation |-> row.citation] ELSE EmptyDict)
        @@ [type |-> dispersion_type, params |-> row]]

MakeVariant(base, dispersion_type, row) ==
    [f \in (DOMAIN base) \cup {"dispersion"} |->
        CASE f = "name" -> base.name \o <<"-">> \o dispersion_type
          [] f = "dispersion" ->
                (IF "citation" \in DOMAIN row THEN [citation |-> row.citation] ELSE EmptyDict)
                @@ [type |-> dispersion_type, params |-> row]
          [] OTHER -> base[f]]

\* for dispersion_functional in dashcoeff[dispersion_type].keys(): ... (rows k..)
RECURSIVE ExpandRows(_, _, _, _, _, _)
ExpandRows(st, dash, ref, functional_aliases, dn, k) ==
    LET rows == dash[dn.val] IN
    IF k > Len(rows) THEN st
    ELSE IF InList(upper(rows[k].key), functional_aliases)
         THEN LET func == MakeVariant(st.heap[ref], dn.val, rows[k].val)
                  new  == Len(st.heap) + 1
                  keys == [i \in 1..Len(functional_aliases) |->
                              CompositeKey(functional_aliases[i], dn)]
              IN ExpandRows([heap |-> Append(st.heap, func),
                             functionals |-> RegisterAll(st.functionals, keys, new)],
                            dash, ref, functional_aliases, dn, k + 1)
         ELSE ExpandRows(st, dash, ref, functional_aliases, dn, k + 1)

\* for dispersion_name in dispersion_names.keys(): ... (names n..)
RECURSIVE ExpandNames(_, _, _, _, _)
ExpandNames(st, dash, ref, functional_aliases, n) ==
    IF n > Len(dispersion_names) THEN st
    ELSE ExpandNames(ExpandRows(st, dash, ref, functional_aliases, dispersion_names[n], 1),
                     dash, ref, functional_aliases, n + 1)

\* one iteration of `for functional_name in dict_functionals.keys()`
ProcessDefinition(st, dash, ref) ==
    LET functional_aliases == get_functional_aliases(st.heap[ref])
        st1 == [heap |-> st.heap,
                functionals |-> RegisterAll(st.functionals, functional_aliases, ref)]
    IN IF "dispersion" \in DOMAIN st.heap[ref]
       THEN st1
       ELSE ExpandNames(st1, dash, ref, functional_aliases, 1)

Loaded == pos = Len(dict_functionals)

LoadStep ==
    /\ pos < Len(dict_functionals)
    /\ LET st == ProcessDefinition([heap |-> heap, functionals |-> functionals],
                                   dashcoeff, dict_functionals[pos + 1])
       IN /\ heap' = st.heap
          /\ functionals' = st.functionals
    /\ pos' = pos + 1
    /\ UNCHANGED <<dashcoeff, dict_functionals, ret, repeated>>

---------------------------------------------------------------------------
(* check_consistency (lines 99-135) *)

\* outcomes of a call
Passed == [raised |-> "None", line |-> 0]
Raised(exc, line) == [raised |-> exc, line |-> line]

\* raise ValidationError("..." % (name)): the message is formatted first, and
\* `name` is neither a parameter or local of check_consistency (the
\* parameter is func_name) nor a global assigned in the module, so the
\* statement ends in a NameError before a ValidationError is constructed.
RaiseValidationError(line) == Raised("NameError", line)

KeyErrorCount == -1

\* lines 117-122: the loop that counts requests for libxc parameters;
\* KeyErrorCount when x_functionals[item]["use_libxc"] is a missing key
RECURSIVE CountUseLibxc(_, _)
CountUseLibxc(x_functionals, k) ==
    IF k > Len(x_functionals) THEN 0
    ELSE IF "use_libxc" \in Keys(x_functionals)
         THEN IF "use_libxc" \notin DOMAIN x_functionals[k].val
              THEN KeyErrorCount
              ELSE LET rest == CountUseLibxc(x_functionals, k + 1) IN
                   IF rest = KeyErrorCount THEN KeyErrorCount
                   ELSE IF x_functionals[k].val.use_libxc THEN rest + 1 ELSE rest
         ELSE CountUseLibxc(x_functionals, k + 1)

check_consistency(func_dictionary) ==
    LET has(f) == f \in DOMAIN func_dictionary
        structural ==
            IF has("xc_functionals")
            THEN IF has("x_functionals") \/ has("x_hf") THEN RaiseValidationError(108)
                 ELSE IF has("c_functionals") \/ has("c_mp2") THEN RaiseValidationError(110)
                 ELSE Passed
            ELSE IF ~has("x_functionals") /\ ~has("x_hf") THEN RaiseValidationError(113)
            ELSE IF ~has("c_functionals") /\ ~has("c_mp2") THEN RaiseValidationError(116)
            ELSE Passed
        use_libxc == IF has("x_functionals")
                     THEN CountUseLibxc(func_dictionary.x_functionals, 1)
                     ELSE 0
    IN IF structural # Passed THEN structural
       ELSE IF use_libxc = KeyErrorCount THEN Raised("KeyError", 121)
       ELSE IF use_libxc > 1 THEN RaiseValidationError(125)
       ELSE IF use_libxc = 1 /\ has("x_hf") THEN RaiseValidationError(128)
       ELSE IF has("x_hf") /\ "use_libxc" \in DOMAIN func_dictionary.x_hf
            THEN IF ~has("x_functionals") THEN Raised("KeyError", 131)
                 ELSE IF func_dictionary.x_hf.use_libxc \notin Keys(func_dictionary.x_functionals)
                      THEN RaiseValidationError(133)
                      ELSE Passed
       ELSE Passed

---------------------------------------------------------------------------
(* The psi4.core objects the builder drives.  An object is the record of   *)
(* the values its setters were given; a field no setter touched is absent, *)
(* except the overall exchange mixing, which starts at zero.               *)

\* core.SuperFunctional.blank()
Blank == [x_alpha |-> 0, x_beta |-> 0, x_omega |-> 0]

\* core.LibXCFunctional(x_name, restricted).query_libxc("XC_HYB_CAM_COEF")
query_libxc(x_name) ==
    CASE x_name = "XC_HYB_X"     -> [ALPHA |-> 20, BETA |-> 5, OMEGA |-> 33]
      [] x_name = "XC_GGA_X_B88" -> [ALPHA |-> 7, BETA |-> 3, OMEGA |-> 11]
      [] OTHER                   -> [ALPHA |-> 0, BETA |-> 0, OMEGA |-> 0]

\* LibXCFunctional.citation() and .description()
LibxcCitation(x_name) ==
    IF x_name \in {"XC_GGA_X_B88", "XC_HYB_X"} THEN "Becke1988" ELSE "cit " \o x_name
LibxcDescription(x_name) == "descr " \o x_name

\* core.SuperFunctional.XC_build(xc_name, restricted)
XC_build(xc_name, restricted) ==
    [xc_name |-> xc_name, restricted |-> restricted,
     x_alpha |-> IF xc_name = "XC_HYB_GGA_XC_B97" THEN 19 ELSE 0,
     x_beta |-> 0, x_omega |-> 0]
is_gga(sup) == sup.xc_name \in {"XC_HYB_GGA_XC_B97", "XC_GGA_XC_HCTH"}

\* "\n".join(list)
RECURSIVE Join(_)
Join(list) ==
    IF Len(list) = 0 THEN ""
    ELSE IF Len(list) = 1 THEN list[1]
    ELSE list[1] \o "\n" \o Join(Tail(list))

\* if x not in list: list.append(x)
AppendNew(list, x) == IF InList(x, list) THEN list ELSE Append(list, x)

\* r with field f set to v
Set(r, f, v) == [g \in (DOMAIN r) \cup {f} |-> IF g = f THEN v ELSE r[g]]

---------------------------------------------------------------------------
(* build_superfunctional_from_dictionary (lines 138-242) *)

\* lines 159-176: the loop over x_functionals, entries k..
\* acc = [x_HF, sup, citation, descr]
RECURSIVE XLoop(_, _, _, _)
XLoop(acc, x_funcs, restricted, k) ==
    IF k > Len(x_funcs) THEN acc
    ELSE LET x_name   == "XC_" \o x_funcs[k].key
             x_params == x_funcs[k].val
             requests == "use_libxc" \in DOMAIN x_params /\ x_params.use_libxc
             f0 == [name |-> x_name, restricted |-> restricted]
             f1 == IF requests THEN Set(f0, "alpha", 100) ELSE f0
             f2 == IF "tweak" \in DOMAIN x_params THEN Set(f1, "tweak", x_params.tweak) ELSE f1
             f3 == IF "alpha" \in DOMAIN x_params THEN Set(f2, "alpha", x_params.alpha) ELSE f2
             f4 == IF "omega" \in DOMAIN x_params THEN Set(f3, "omega", x_params.omega) ELSE f3
         IN XLoop([x_HF |-> IF requests THEN query_libxc(x_name) ELSE acc.x_HF,
                   x_functionals |-> Append(acc.x_functionals, f4),
                   citation |-> AppendNew(acc.citation, LibxcCitation(x_name)),
                   descr |-> AppendNew(acc.descr, LibxcDescription(x_name))],
                  x_funcs, restricted, k + 1)

\* lines 196-210: the loop over c_functionals, entries k..
\* acc = [c_functionals, citation, descr]
RECURSIVE CLoop(_, _, _, _)
CLoop(acc, c_funcs, restricted, k) ==
    IF k > Len(c_funcs) THEN acc
    ELSE LET c_name   == "XC_" \o c_funcs[k].key
             c_params == c_funcs[k].val
             f0 == [name |-> c_name, restricted |-> restricted]
             f1 == IF "tweak" \in DOMAIN c_params THEN Set(f0, "tweak", c_params.tweak) ELSE f0
             f2 == IF "alpha" \in DOMAIN c_params THEN Set(f1, "alpha", c_params.alpha)
                                                  ELSE Set(f1, "alpha", 100)
         IN CLoop([c_functionals |-> Append(acc.c_functionals, f2),
                   citation |-> AppendNew(acc.citation, LibxcCitation(c_name)),
                   descr |-> AppendNew(acc.descr, LibxcDescription(c_name))],
                  c_funcs, restricted, k + 1)

\* lines 177-193: the overall exchange mixing of the blank composite
OverallExchange_candidate_first(sup, spec, x_HF) ==
    IF "x_hf" \in DOMAIN spec /\ x_HF = [ALPHA |-> 0, BETA |-> 0, OMEGA |-> 0]
    THEN LET x_params == spec.x_hf
             s1 == IF "alpha" \in DOMAIN x_params THEN Set(sup, "x_alpha", x_params.alpha) ELSE sup
             s2 == IF "beta" \in DOMAIN x_params THEN Set(s1, "x_beta", x_params.beta) ELSE s1
         IN IF "omega" \in DOMAIN x_params THEN Set(s2, "x_omega", x_params.omega) ELSE s2
    ELSE Set(Set(Set(sup, "x_alpha", x_HF.ALPHA + x_HF.BETA),
                          "x_beta", x_HF.ALPHA - x_HF.BETA),
                          "x_omega", x_HF.OMEGA)

OverallExchange(sup, spec, x_HF) ==
    IF "x_hf" \in DOMAIN spec
    THEN LET x_params == spec.x_hf
             s1 == IF "alpha" \in DOMAIN x_params THEN Set(sup, "x_alpha", x_params.alpha) ELSE sup
             s2 == IF "beta" \in DOMAIN x_params THEN Set(s1, "x_beta", x_params.beta) ELSE s1
         IN IF "omega" \in DOMAIN x_params THEN Set(s2, "x_omega", x_params.omega) ELSE s2
    ELSE Set(Set(Set(sup, "x_alpha", x_HF.ALPHA + x_HF.BETA),
                          "x_beta", x_HF.ALPHA - x_HF.BETA),
                          "x_omega", x_HF.OMEGA)

\* lines 184-185: x_params["alpha"] = 0.0 is stored in the spec's own x_hf dict
SpecAfterXhf(spec) ==
    IF "x_hf" \in DOMAIN spec /\ "alpha" \notin DOMAIN spec.x_hf
    THEN Set(spec, "x_hf", Set(spec.x_hf, "alpha", 0))
    ELSE spec

\* lines 211-220
Mp2(sup, spec) ==
    IF "c_mp2" \in DOMAIN spec
    THEN LET c_params == spec.c_mp2
             s1 == IF "alpha" \in DOMAIN c_params THEN Set(sup, "c_alpha", c_params.alpha)
                                                  ELSE Set(sup, "c_alpha", 0)
             s2 == IF "ss" \in DOMAIN c_params THEN Set(s1, "c_ss_alpha", c_params.ss) ELSE s1
         IN IF "os" \in DOMAIN c_params THEN Set(s2, "c_os_alpha", c_params.os) ELSE s2
    ELSE sup

\* lines 140-151: the bundled branch; the loop keeps the last key
XCBranch(spec, name, restricted) ==
    LET xc   == spec.xc_functionals
        sup  == XC_build("XC_" \o xc[Len(xc)].key, restricted)
        kind == IF is_gga(sup) THEN (IF sup.x_alpha > 0 THEN "Hyb-GGA " ELSE "GGA ") ELSE ""
    IN Set(sup, "description",
           [name |-> upper(name), text |-> kind \o "Exchange-Correlation Functional\n"])

\* lines 152-224: the blank composite
BlankBranch(spec, restricted) ==
    LET x_funcs == IF "x_functionals" \in DOMAIN spec THEN spec.x_functionals ELSE <<>>
        c_funcs == IF "c_functionals" \in DOMAIN spec THEN spec.c_functionals ELSE <<>>
        xs == XLoop([x_HF |-> [ALPHA |-> 0, BETA |-> 0, OMEGA |-> 0], x_functionals |-> <<>>,
                     citation |-> <<>>, descr |-> <<>>], x_funcs, restricted, 1)
        cs == CLoop([c_functionals |-> <<>>, citation |-> xs.citation, descr |-> xs.descr],
                    c_funcs, restricted, 1)
        s1 == OverallExchange(Blank, spec, xs.x_HF)
        s2 == Mp2(s1, spec)
    IN [f \in (DOMAIN s2) \cup {"x_functionals", "c_functionals", "citation", "description"} |->
           CASE f = "x_functionals" -> xs.x_functionals
             [] f = "c_functionals" -> cs.c_functionals
             [] f = "citation"      -> Join(cs.citation)
             [] f = "description"   -> [text |-> Join(cs.descr)]
             [] OTHER               -> s2[f]]

\* lines 231-236: the spec's own dispersion dict gets citation = False
SpecAfterDispersion(spec) ==
    IF "dispersion" \in DOMAIN spec /\ "citation" \notin DOMAIN spec.dispersion
    THEN Set(spec, "dispersion", Set(spec.dispersion, "citation", False))
    ELSE spec

\* the second return value: the spec's dispersion dict itself, or False
DispersionResult_before_default(spec_before, spec_after) ==
    IF "dispersion" \in DOMAIN spec_before THEN spec_before.dispersion ELSE False

DispersionResult(spec_before, spec_after) ==
    IF "dispersion" \in DOMAIN spec_after THEN spec_after.dispersion ELSE False

\* the whole call on the spec a registry key resolves to:
\* [spec |-> the spec afterwards, sup, dispersion]
Construct(spec, name, npoints, deriv, restricted) ==
    LET sup0 == IF "xc_functionals" \in DOMAIN spec
                THEN XCBranch(spec, name, restricted)
                ELSE BlankBranch(spec, restricted)
        spec1 == IF "xc_functionals" \in DOMAIN spec THEN spec ELSE SpecAfterXhf(spec)
        sup1 == IF "citation" \in DOMAIN spec THEN Set(sup0, "citation", spec.citation) ELSE sup0
        sup2 == IF "description" \in DOMAIN spec
                THEN Set(sup1, "description", [text |-> spec.description]) ELSE sup1
        spec2 == SpecAfterDispersion(spec1)
        sup3 == Set(Set(Set(sup2, "max_points", npoints), "deriv", deriv), "name", upper(name))
    IN [spec |-> spec2, sup |-> sup3, dispersion |-> DispersionResult(spec1, spec2)]

\* functionals[name]: the registry is indexed with the name as given
LookupKey(name) == name

NoCall == [name |-> <<>>, npoints |-> 0, deriv |-> 0, restricted |-> FALSE,
           raised |-> "NoCall", line |-> 0]

Build(name, npoints, deriv, restricted) ==
    /\ Loaded
    /\ LET args == [name |-> name, npoints |-> npoints, deriv |-> deriv,
                    restricted |-> restricted]
           key  == LookupKey(name)
       IN IF key \notin DOMAIN functionals
          THEN /\ ret' = args @@ Raised("KeyError", 139)
               /\ heap' = heap
          ELSE LET ref == functionals[key]
                   chk == check_consistency(heap[ref])
               IN IF chk # Passed
                  THEN /\ ret' = args @@ chk
                       /\ heap' = heap
                  ELSE LET out == Construct(heap[ref], name, npoints, deriv, restricted)
                       IN /\ ret' = args @@ Passed
                                    @@ [sup |-> out.sup, dispersion |-> out.dispersion]
                          /\ heap' = [heap EXCEPT ![ref] = out.spec]
    /\ repeated' = (ret.raised # "NoCall" /\ ret.name = name /\ ret.npoints = npoints
                     /\ ret.deriv = deriv /\ ret.restricted = restricted)
    /\ UNCHANGED <<dashcoeff, dict_functionals, functionals, pos>>

---------------------------------------------------------------------------
(* The explored inputs: the definition tables and the coefficient table    *)

\* sequences of at most n distinct elements of S, in every order
DistinctSeqs(S, n) ==
    {q \in UNION {[1..m -> S] : m \in 0..n} :
        \A i, j \in 1..Len(q) : i # j => q[i] # q[j]}

\* iterated dicts with at most n entries, keys from K and values from V
Dicts(K, V, n) ==
    {d \in UNION {[1..m -> [key : K, val : V]] : m \in 0..n} :
        \A i, j \in 1..Len(d) : i # j => d[i].key # d[j].key}

\* the dict {f: v} when the optional field is present, else {}
Opt(f, present, v) == IF present THEN f :> v ELSE EmptyDict

(* naming inputs: names, aliases and coefficient rows that collide or not *)
NamePool   == { <<"b","8","8">>, <<"b","8","8","-","d","3">> }
AliasLists == { <<>>, << <<"B","8","8">> >> }
RowKeyPool == { <<"b","8","8">>, <<"B","8","8">> }
OtherRowKey == <<"p","b","e">>
VariedScheme == <<"d","3","z","e","r","o">>

RowOf(key) ==
    CASE key = <<"b","8","8">> -> [s6 |-> 100, citation |-> PyStr("Grimme2010")]
      [] key = <<"B","8","8">> -> [s6 |-> 120, citation |-> PyStr("Grimme2011")]
      [] OTHER                 -> [s6 |-> 140]

OwnDispersion == [type |-> <<"d","2","g","r">>, params |-> [s6 |-> 75],
                  citation |-> PyStr("Grimme2006")]

NamingBody ==
    [x_functionals |-> << [key |-> "GGA_X_B88", val |-> EmptyDict] >>,
     c_functionals |-> << [key |-> "GGA_C_LYP", val |-> EmptyDict] >>,
     citation |-> "Becke1988, Lee1988"]

\* the definition named b88-d3 may carry a dispersion of its own
NamingDefs ==
    { [name |-> c.n] @@ Opt("alias", Len(c.a) > 0, c.a) @@ Opt("dispersion", c.d, OwnDispersion)
        @@ NamingBody :
        c \in {c \in [n : NamePool, a : AliasLists, d : BOOLEAN] :
                  c.d => c.n = <<"b","8","8","-","d","3">>} }

\* the varied scheme holds any of the pool's rows in any order, then a row
\* that is no definition's alias; the other schemes hold no rows
NamingTables ==
    { [t \in DispersionTypes |->
          IF t = VariedScheme
          THEN [i \in 1..Len(ks) |-> [key |-> ks[i], val |-> RowOf(ks[i])]]
               \o << [key |-> OtherRowKey, val |-> RowOf(OtherRowKey)] >>
          ELSE <<>>] :
        ks \in DistinctSeqs(RowKeyPool, Cardinality(RowKeyPool)) }

(* structural inputs: one definition with every shape of body *)
XComponents == {"GGA_X_B88", "HYB_X", "use_libxc"}
XParamsPool == { EmptyDict, [use_libxc |-> TRUE], [use_libxc |-> FALSE, alpha |-> 50] }

XhfPool ==
    { Opt("alpha", a, 25) @@ Opt("beta", b, 10) @@ Opt("omega", o, 30)
        @@ Opt("use_libxc", u, "HYB_X") : a, b, o, u \in BOOLEAN }

XcPool == { << [key |-> "HYB_GGA_XC_B97", val |-> EmptyDict] >> }
XSimple == { << [key |-> "GGA_X_B88", val |-> EmptyDict] >> }
XhfSimple == { [alpha |-> 25] }
CPool == { << [key |-> "GGA_C_LYP", val |-> [alpha |-> 81]] >> }
Mp2Pool == { [ss |-> 40] }

\* an optional field: absent, or present with a value of S
Maybe(S) == {[present |-> FALSE, val |-> <<>>]} \cup {[present |-> TRUE, val |-> v] : v \in S}

StructuralDef(xc, x, h, c, m) ==
    [name |-> <<"b","8","8">>]
        @@ Opt("xc_functionals", xc.present, xc.val)
        @@ Opt("x_functionals", x.present, x.val)
        @@ Opt("x_hf", h.present, h.val)
        @@ Opt("c_functionals", c.present, c.val)
        @@ Opt("c_mp2", m.present, m.val)

\* every combination of the five fields, and for the specs with c_functionals
\* and without xc_functionals every content of x_functionals and x_hf
StructuralDefs ==
    { StructuralDef(xc, x, h, c, m) :
        xc \in Maybe(XcPool), x \in Maybe(XSimple), h \in Maybe(XhfSimple),
        c \in Maybe(CPool), m \in Maybe(Mp2Pool) }
    \cup
    { StructuralDef([present |-> FALSE, val |-> <<>>], x, h, c, m) :
        x \in Maybe(Dicts(XComponents, XParamsPool, MaxXFuncs)), h \in Maybe(XhfPool),
        c \in Maybe(CPool) \ Maybe({}), m \in Maybe(Mp2Pool) }

StructuralTable ==
    [t \in DispersionTypes |->
        IF t = <<"d","3","b","j">>
        THEN << [key |-> <<"B","8","8">>, val |-> [s6 |-> 120]] >>
        ELSE <<>>]

(* arguments of build calls *)
NPointsPool == {500}
DerivPool == {1}
RestrictedPool == {TRUE}

\* the keys of the registry and the names and aliases as the definitions spell them
BuildNames ==
    (DOMAIN functionals)
    \cup {heap[dict_functionals[i]].name : i \in 1..Len(dict_functionals)}
    \cup UNION { IF "alias" \in DOMAIN heap[dict_functionals[i]]
                 THEN {heap[dict_functionals[i]].alias[j] :
                          j \in 1..Len(heap[dict_functionals[i]].alias)}
                 ELSE {} : i \in 1..Len(dict_functionals) }

---------------------------------------------------------------------------
(* The state machine *)

InitNaming ==
    /\ heap \in DistinctSeqs(NamingDefs, MaxDefs)
    /\ Len(heap) > 0
    /\ dashcoeff \in NamingTables

InitStructural ==
    /\ heap \in {<<d>> : d \in StructuralDefs}
    /\ dashcoeff = StructuralTable

Start ==
    /\ dict_functionals = [i \in 1..Len(heap) |-> i]
    /\ functionals = <<>>
    /\ pos = 0
    /\ ret = NoCall
    /\ repeated = FALSE

InitNamingSpec == InitNaming /\ Start
InitStructuralSpec == InitStructural /\ Start
Init == (InitNaming \/ InitStructural) /\ Start

BuildCall ==
    \E name \in BuildNames, npoints \in NPointsPool, deriv \in DerivPool,
       restricted \in RestrictedPool :
        Build(name, npoints, deriv, restricted)

Next == LoadStep \/ BuildCall

Spec == Init /\ [][Next]_vars
SpecNaming == InitNamingSpec /\ [][Next]_vars
SpecStructural == InitStructuralSpec /\ [][Next]_vars

---------------------------------------------------------------------------
(* Vocabulary of the properties *)

BaseRefs == 1..Len(dict_functionals)

\* the upper-cased canonical name and aliases a definition declares
AliasKeys(r) ==
    {upper(heap[r].name)}
    \cup (IF "alias" \in DOMAIN heap[r]
          THEN {upper(heap[r].alias[i]) : i \in 1..Len(heap[r].alias)}
          ELSE {})

\* the rows of scheme t whose upper-cased key is an alias of r, by position
MatchingRows(r, t) ==
    {i \in 1..Len(dashcoeff[t]) : upper(dashcoeff[t][i].key) \in AliasKeys(r)}

\* the composite keys <ALIAS>-<SHORTNAME> the expansion writes for r
VariantKeys(r) ==
    IF "dispersion" \in DOMAIN heap[r] THEN {}
    ELSE {a \o <<"-">> \o upper(dispersion_names[n].key) :
            a \in AliasKeys(r),
            n \in {m \in 1..Len(dispersion_names) :
                      MatchingRows(r, dispersion_names[m].val) # {}}}

\* the error kind of an outcome of check_consistency
Kind(outcome) ==
    IF outcome.raised = "ValidationError"
    THEN CASE outcome.line = 108 -> "DuplicateExchangeSpec"
           [] outcome.line = 110 -> "DuplicateCorrelationSpec"
           [] outcome.line = 113 -> "MissingExchangeSpec"
           [] outcome.line = 116 -> "MissingCorrelationSpec"
           [] outcome.line = 125 -> "DuplicateHybridRequest"
           [] outcome.line = 128 -> "InconsistentExchangeSpec"
           [] outcome.line = 133 -> "UnresolvedHybridReference"
           [] OTHER -> "ValidationError"
    ELSE outcome.raised

StructuralKinds == {"DuplicateExchangeSpec", "DuplicateCorrelationSpec",
                    "MissingExchangeSpec", "MissingCorrelationSpec"}

\* the first violated structural check, in the documented order
FirstStructural(s) ==
    LET has(f) == f \in DOMAIN s IN
    IF has("xc_functionals") /\ (has("x_functionals") \/ has("x_hf")) THEN "DuplicateExchangeSpec"
    ELSE IF has("xc_functionals") /\ (has("c_functionals") \/ has("c_mp2"))
         THEN "DuplicateCorrelationSpec"
    ELSE IF ~has("xc_functionals") /\ ~has("x_functionals") /\ ~has("x_hf")
         THEN "MissingExchangeSpec"
    ELSE IF ~has("xc_functionals") /\ ~has("c_functionals") /\ ~has("c_mp2")
         THEN "MissingCorrelationSpec"
    ELSE "None"

\* the entries of x_functionals whose parameters set use_libxc truthy
HybridRequests(s) ==
    IF "x_functionals" \in DOMAIN s
    THEN {i \in 1..Len(s.x_functionals) :
             "use_libxc" \in DOMAIN s.x_functionals[i].val /\ s.x_functionals[i].val.use_libxc}
    ELSE {}

RegistrySpecs == {heap[functionals[k]] : k \in DOMAIN functionals}

---------------------------------------------------------------------------
(* C1 *)

\* C1 as stated: after the registry is built every base definition is
\* reachable under upper(N) and every upper(Ai), and all of these keys resolve
\* to the base definition object itself, for every input and processing order.
C1_AsStated ==
    Loaded => \A r \in BaseRefs : \A k \in AliasKeys(r) :
                  k \in DOMAIN functionals /\ functionals[k] = r

\* the key k of definition r is written again later in the load loop
WrittenAfter(r, k) ==
    \/ \E r2 \in BaseRefs : r2 > r /\ k \in AliasKeys(r2)
    \/ \E r2 \in BaseRefs : r2 >= r /\ k \in VariantKeys(r2)

\* C1 amended: after the registry is built, upper(N) and every upper(Ai) of
\* every base definition are keys of the registry, and each of them resolves
\* to the base definition object itself unless the key is written again
\* later in the load loop (as a name or alias of a definition processed
\* afterwards, or as a composite dispersion key of this or a later one).
C1_AliasesResolve ==
    Loaded => \A r \in BaseRefs : \A k \in AliasKeys(r) :
                  /\ k \in DOMAIN functionals
                  /\ ~WrittenAfter(r, k) => functionals[k] = r

C1_Witness ==
    /\ Loaded
    /\ Len(dict_functionals) = 2
    /\ \E r \in BaseRefs :
          /\ Cardinality(AliasKeys(r)) = 2
          /\ \A k \in AliasKeys(r) : k \in DOMAIN functionals /\ functionals[k] = r

---------------------------------------------------------------------------
(* C2 *)

\* what C2 requires of the composite key of alias a and short name n, for row i
VariantAt(r, a, n, i) ==
    LET dn == dispersion_names[n]
        K  == a \o <<"-">> \o upper(dn.key)
    IN /\ K \in DOMAIN functionals
       /\ "dispersion" \in DOMAIN heap[functionals[K]]
       /\ heap[functionals[K]].dispersion.type = dn.val
       /\ heap[functionals[K]].dispersion.params = dashcoeff[dn.val][i].val
       /\ heap[functionals[K]].name = heap[r].name \o <<"-">> \o dn.val

\* C2 as stated: for every base definition without a dispersion field and
\* every short name s with scheme t, if a key of coefficient_table[t] equals,
\* upper-cased, an alias of the definition, then for every alias a the key
\* a-upper(s) resolves to a spec with dispersion.type = t, dispersion.params =
\* that row, and name = base name + "-" + t.
C2_AsStated ==
    Loaded => \A r \in BaseRefs : "dispersion" \notin DOMAIN heap[r] =>
                \A n \in 1..Len(dispersion_names) :
                  \A i \in MatchingRows(r, dispersion_names[n].val) :
                    \A a \in AliasKeys(r) : VariantAt(r, a, n, i)

Max(S) == CHOOSE x \in S : \A y \in S : y <= x

\* C2 amended: as C2, with dispersion.params the LAST row of
\* coefficient_table[t], in iteration order, whose upper-cased key is an alias
\* of the definition, and for the composite keys that no definition processed
\* afterwards writes again (as its name or alias, or as a composite key).
C2_DispersionExpansion ==
    Loaded => \A r \in BaseRefs : "dispersion" \notin DOMAIN heap[r] =>
                \A n \in 1..Len(dispersion_names) :
                  MatchingRows(r, dispersion_names[n].val) # {} =>
                    \A a \in AliasKeys(r) :
                      LET K == a \o <<"-">> \o upper(dispersion_names[n].key) IN
                      \/ \E r2 \in BaseRefs :
                            r2 > r /\ K \in AliasKeys(r2) \cup VariantKeys(r2)
                      \/ VariantAt(r, a, n, Max(MatchingRows(r, dispersion_names[n].val)))

\* alias B88 with row b88 under d3zero: B88-D3ZERO and B88-D3
C2_Witness ==
    /\ Loaded
    /\ \E i \in 1..Len(dashcoeff[<<"d","3","z","e","r","o">>]) :
          dashcoeff[<<"d","3","z","e","r","o">>][i].key = <<"b","8","8">>
    /\ \A K \in { <<"B","8","8","-","D","3","Z","E","R","O">>, <<"B","8","8","-","D","3">> } :
          /\ K \in DOMAIN functionals
          /\ "dispersion" \in DOMAIN heap[functionals[K]]
          /\ heap[functionals[K]].dispersion.type = <<"d","3","z","e","r","o">>
          /\ heap[functionals[K]].name = <<"b","8","8","-","d","3","z","e","r","o">>

---------------------------------------------------------------------------
(* C3 *)

\* C3: if every base definition passes check_consistency, then every spec of
\* the built registry passes it, the synthesized dispersion variants included.
C3_RegistryConsistent ==
    Loaded =>
        ((\A r \in BaseRefs : check_consistency(heap[r]) = Passed)
            => \A s \in RegistrySpecs : check_consistency(s) = Passed)

\* a passing base definition with x_hf, and a variant of it in the registry
C3_Witness ==
    /\ Loaded
    /\ \A r \in BaseRefs : check_consistency(heap[r]) = Passed /\ "x_hf" \in DOMAIN heap[r]
    /\ \E k \in DOMAIN functionals :
          /\ functionals[k] \notin BaseRefs
          /\ check_consistency(heap[functionals[k]]) = Passed

---------------------------------------------------------------------------
(* C4 *)

\* C4: for every combination of the five fields check_consistency reports
\* the first violated structural check, in the order DuplicateExchangeSpec,
\* DuplicateCorrelationSpec, MissingExchangeSpec, MissingCorrelationSpec, as
\* a validation error of that kind, and none of the four when no structural
\* check is violated.
C4_StructuralErrors ==
    Loaded => \A s \in RegistrySpecs :
                IF FirstStructural(s) # "None"
                THEN Kind(check_consistency(s)) = FirstStructural(s)
                ELSE Kind(check_consistency(s)) \notin StructuralKinds

---------------------------------------------------------------------------
(* C5 *)

\* C5: a spec that passes the four structural checks and has two or more
\* x_functionals entries whose parameters set use_libxc truthy fails with
\* DuplicateHybridRequest.
C5_DuplicateHybridRequest ==
    Loaded => \A s \in RegistrySpecs :
                (FirstStructural(s) = "None" /\ Cardinality(HybridRequests(s)) >= 2)
                    => Kind(check_consistency(s)) = "DuplicateHybridRequest"

---------------------------------------------------------------------------
(* C6 *)

\* C6: a spec that passes all earlier checks and whose x_hf carries a
\* use_libxc that is not a key of x_functionals (x_functionals may be absent)
\* fails with UnresolvedHybridReference and with no other kind of failure.
C6_UnresolvedHybridReference ==
    Loaded => \A s \in RegistrySpecs :
                (/\ FirstStructural(s) = "None"
                 /\ Cardinality(HybridRequests(s)) = 0
                 /\ "x_hf" \in DOMAIN s
                 /\ "use_libxc" \in DOMAIN s.x_hf
                 /\ ("x_functionals" \in DOMAIN s => s.x_hf.use_libxc \notin Keys(s.x_functionals)))
                    => Kind(check_consistency(s)) = "UnresolvedHybridReference"

---------------------------------------------------------------------------
(* C7 *)

\* C7: build looks the name up case-insensitively: a call whose name is a
\* case variant of a registry key K does not fail the lookup, and succeeds
\* whenever the spec behind K passes validation.
C7_CaseInsensitiveLookup ==
    (ret.raised # "NoCall" /\ upper(ret.name) \in DOMAIN functionals) =>
        /\ ~(ret.raised = "KeyError" /\ ret.line = 139)
        /\ check_consistency(heap[functionals[upper(ret.name)]]) = Passed
              => ret.raised = "None"

---------------------------------------------------------------------------
(* C8 *)

\* C8: the registry is read-only after it is built: a build call, successful
\* or failing, leaves every spec of the registry, its nested x_hf and
\* dispersion records included, with the same keys and values.
C8_RegistryUnchanged ==
    [][Loaded => (heap' = heap /\ functionals' = functionals)]_vars

---------------------------------------------------------------------------
(* C9 *)

\* the scalar configuration of a built object
Scalars(r) ==
    [x_alpha |-> r.sup.x_alpha, x_beta |-> r.sup.x_beta, x_omega |-> r.sup.x_omega,
     citation |-> IF "citation" \in DOMAIN r.sup THEN PyStr(r.sup.citation) ELSE False,
     description |-> r.sup.description, name |-> r.sup.name]

\* C9: two successive build calls with identical arguments have the same
\* outcome: both fail alike, or both return objects with identical scalar
\* configuration and equal dispersion results.
C9_Determinism ==
    [][(/\ Loaded
        /\ ret.raised # "NoCall"
        /\ ret'.name = ret.name /\ ret'.npoints = ret.npoints
        /\ ret'.deriv = ret.deriv /\ ret'.restricted = ret.restricted)
       => /\ ret'.raised = ret.raised
          /\ ret'.line = ret.line
          /\ ret.raised = "None" =>
                /\ Scalars(ret') = Scalars(ret)
                /\ ret'.dispersion = ret.dispersion]_vars

\* a repeated successful call on a spec whose x_hf.alpha and
\* dispersion.citation the first call defaulted
C9_Witness ==
    /\ repeated
    /\ ret.raised = "None"
    /\ ret.dispersion # False
    /\ ret.dispersion.citation = False
    /\ "x_hf" \in DOMAIN heap[functionals[ret.name]]
    /\ ret.sup.x_alpha = 0

---------------------------------------------------------------------------
(* C10 *)

\* the overall exchange mixing C10 prescribes for a spec without xc_functionals
HybridMixing(s) ==
    IF "x_hf" \in DOMAIN s
    THEN [x_alpha |-> IF "alpha" \in DOMAIN s.x_hf THEN s.x_hf.alpha ELSE 0,
          x_beta  |-> IF "beta"  \in DOMAIN s.x_hf THEN s.x_hf.beta  ELSE 0,
          x_omega |-> IF "omega" \in DOMAIN s.x_hf THEN s.x_hf.omega ELSE 0]
    ELSE IF HybridRequests(s) = {}
         THEN [x_alpha |-> 0, x_beta |-> 0, x_omega |-> 0]
         ELSE LET i == CHOOSE j \in HybridRequests(s) : TRUE
                  t == query_libxc("XC_" \o s.x_functionals[i].key)
              IN [x_alpha |-> t.ALPHA + t.BETA, x_beta |-> t.ALPHA - t.BETA,
                  x_omega |-> t.OMEGA]

\* C10: a successful build of a spec without xc_functionals sets the overall
\* exchange alpha, beta, omega from x_hf when x_hf is present (0.0 for an
\* absent key, whatever candidate triple was queried), and otherwise from the
\* triple of the one x_functionals entry that requests hybrid coefficients, or
\* to zeros when none does.
C10_HybridPrecedence ==
    [][(/\ Loaded
        /\ ret'.raised = "None"
        /\ "xc_functionals" \notin DOMAIN heap[functionals[ret'.name]]
        /\ Cardinality(HybridRequests(heap[functionals[ret'.name]])) <= 1)
       => LET m == HybridMixing(heap[functionals[ret'.name]]) IN
          /\ ret'.sup.x_alpha = m.x_alpha
          /\ ret'.sup.x_beta = m.x_beta
          /\ ret'.sup.x_omega = m.x_omega]_vars

\* x_hf without beta overrides the triple of a use_libxc component
C10_Witness ==
    /\ ret.raised = "None"
    /\ LET s == heap[functionals[ret.name]] IN
          /\ "x_hf" \in DOMAIN s
          /\ "beta" \notin DOMAIN s.x_hf
          /\ "omega" \in DOMAIN s.x_hf
          /\ Cardinality(HybridRequests(s)) = 1
          /\ ret.sup.x_beta = 0
          /\ ret.sup.x_omega = s.x_hf.omega

====
